---- MODULE Spec2Model ----
(***************************************************************************)
(* getty connection layer (conn.go): the process-wide connection id        *)
(* counter, the shared gettyConn state, the TCP adapter gettyTCPConn and   *)
(* the websocket adapter gettyWSConn, over nondeterministic transports.    *)
(*                                                                         *)
(* Spec        one adapter, calls made one after another (each action is   *)
(*             one whole call).                                            *)
(* SpecNew     several tasks running the two constructors concurrently.    *)
(* SpecActive  several tasks running updateActive concurrently.            *)
(* SpecClose   several tasks running gettyTCPConn.close concurrently.      *)
(* SpecWrap    SpecNew in a process that has made 2^32 - 2 adapters.       *)
(* SpecCount   several tasks running read, write, incReadPkgCount and      *)
(*             incWritePkgCount on one adapter concurrently.               *)
(***************************************************************************)
EXTENDS Integers, Sequences, FiniteSets, TLC

VARIABLES
    connID,   \* var connID uint32 (conn.go:54), as two 16-bit limbs <<hi, lo>>
    this,     \* the adapter: the gettyConn fields, the conn handle, the adapter kind
    net,      \* the transport behind the handle, as the adapter's calls leave it
    now,      \* last reading of the monotonic clock, time.Since(launchTime)
    ret,      \* what the last completed call returned (or that it panicked)
    hist,     \* history of the calls made: counts and exact sums
    pc,       \* per task: where it stands inside the call it is running
    loc,      \* per task: the locals of the call it is running
    made      \* adapters the constructors have returned, in order of return

vars == <<connID, this, net, now, ret, hist, pc, loc, made>>

(***************************************************************************)
(* Bounds of the model.                                                    *)
(***************************************************************************)
MaxCalls == 3      \* calls made on the adapter in one behaviour of Spec
MaxClock == 2      \* largest clock reading
NTasks == 2        \* concurrent tasks of SpecNew, SpecActive, SpecClose
MaxNew == 3        \* constructor calls per task in SpecNew

Tasks == 1..NTasks

(***************************************************************************)
(* uint32 arithmetic. TLC's integers are 32-bit signed, so a uint32 is     *)
(* held as two 16-bit limbs <<hi, lo>>, value hi * 2^16 + lo. An exact     *)
(* (unbounded) sum is held the same way with an unbounded hi.              *)
(***************************************************************************)
Uint32Bits == 32
Limb == 2 ^ (Uint32Bits \div 2)

\* uint32(n), for an int 0 <= n < 2^31
U32(n) == <<(n \div Limb) % Limb, n % Limb>>

Zero32 == <<0, 0>>

\* what a non-atomic or forgotten add would leave: the old value
AddUint32_lost(c, d) == c

\* atomic.AddUint32(&c, d): the new value, modulo 2^32
AddUint32(c, d) ==
    LET lo == c[2] + d[2]
        hi == c[1] + d[1] + (lo \div Limb)
    IN  <<hi % Limb, lo % Limb>>

\* exact sum s + n, for an int 0 <= n < 2^31
WideAdd(s, n) ==
    LET lo == s[2] + (n % Limb)
    IN  <<s[1] + (n \div Limb) + (lo \div Limb), lo % Limb>>

\* an exact sum reduced modulo 2^32
Mod32(s) == <<s[1] % Limb, s[2]>>

WideLeq(a, b) == a[1] < b[1] \/ (a[1] = b[1] /\ a[2] <= b[2])

(***************************************************************************)
(* Values the calls are made with.                                         *)
(***************************************************************************)
Nil == "nil"                       \* a nil handle, a nil error
\* len(p) of a 2 GiB - 1 buffer, 2^31 - 1: len(p) is an int, and the largest TLC holds
BigLen == Limb * ((Limb \div 2) - 1) + (Limb - 1)
Lens == {0, 1, BigLen}             \* len(p) of the buffers read into and written
Upto(L) == {k \in Lens : k <= L}
Payload(L) == [text |-> "data", len |-> L]
NoData == [text |-> "", len |-> 0]
Messages == {NoData, [text |-> "hello", len |-> 5]}        \* ping payloads
Bye == [text |-> "bye-bye!!!", len |-> 10]
Durations == {-1, 0, 2, 5}         \* time.Duration arguments of the setters
Lingers == {0, 3}                  \* waitSec arguments of close
Addrs == {Nil, "addr"}             \* LocalAddr() / RemoteAddr(): nil or an address

\* errors of the transports
TCPErrors == {"timeout", "reset"}
WSWriteErrors == {"ErrCloseSent", "net.temporary", "net.permanent", "other"}
WSReadErrors == {"CloseError1001", "CloseError1006", "other"}
ErrClosed == "closed"              \* use of closed network connection

\* err == websocket.ErrCloseSent
IsErrCloseSent(e) == e = "ErrCloseSent"
\* e, ok := err.(net.Error); ok && e.Temporary()
IsTemporaryNetError(e) == e = "net.temporary"
\* websocket.IsUnexpectedCloseError(e, websocket.CloseGoingAway)
IsUnexpectedCloseError(e) == e \in {"CloseError1006"}

(***************************************************************************)
(* The adapter and its transport.                                          *)
(***************************************************************************)
\* a transport handle as handed to a constructor; every handle is backed by
\* a *net.TCPConn (the type the close methods assert)
Handle(l, p) == [nil |-> FALSE, tcp |-> TRUE, laddr |-> l, raddr |-> p]
\* the nil handle
NilHandle == [nil |-> TRUE, tcp |-> FALSE, laddr |-> Nil, raddr |-> Nil]
Handles == {Handle(l, p) : l \in Addrs, p \in Addrs}
\* the handles the one adapter of Spec is built around
SomeHandles == {Handle(Nil, Nil), Handle("addr", "addr")}

FreshNet(h) ==
    [tcp |-> h.tcp, laddr |-> h.laddr, raddr |-> h.raddr,
     open |-> TRUE,          \* Close has not been called on it
     closes |-> 0,           \* calls of Close
     lingers |-> 0,          \* calls of SetLinger
     linger |-> -1,          \* argument of the last SetLinger, -1: none
     reads |-> 0,            \* calls of Read / ReadMessage
     writes |-> 0,           \* calls of Write / WriteMessage
     accepted |-> Zero32,    \* exact sum of the bytes Write has accepted
     frame |-> [type |-> "none", data |-> NoData],   \* last frame handed to WriteMessage
     err |-> Nil,            \* error the last Read / Write / ...Message call returned
     n |-> 0,                \* n (or the payload's length) the last Read / ReadMessage returned
     trace |-> <<>>,         \* the transport calls of the last adapter call that made any
     handlers |-> {}]        \* handlers set with SetPingHandler / SetPongHandler

AddrString(a) == IF a # Nil THEN a ELSE ""

\* the adapter a constructor builds around handle h with identity id
NewAdapter(kind, h, id) ==
    [kind |-> kind, conn |-> "conn",
     ID |-> id, readCount |-> Zero32, writeCount |-> Zero32,
     readPkgCount |-> Zero32, writePkgCount |-> Zero32,
     active |-> 0, rDeadline |-> 0, wDeadline |-> 0,
     local |-> AddrString(h.laddr), peer |-> AddrString(h.raddr)]

NoRet == [op |-> "none", panic |-> FALSE, err |-> Nil, n |-> 0, data |-> NoData]
Ret(op, e, n, d) == [op |-> op, panic |-> FALSE, err |-> e, n |-> n, data |-> d]
Panic(op) == [op |-> op, panic |-> TRUE, err |-> Nil, n |-> 0, data |-> NoData]

NoHist ==
    [calls |-> 0,
     wsum |-> Zero32,        \* exact sum of len(p) over the write calls
     rsum |-> Zero32,        \* exact sum of the n the transport's Read returned
     wsReads |-> 0,          \* gettyWSConn.read calls that returned a nil error
     incR |-> 0, incW |-> 0, \* incReadPkgCount / incWritePkgCount calls
     setR |-> 0, setW |-> 0, \* setReadDeadline / setWriteDeadline calls that returned
     warns |-> 0,            \* log.Warn calls
     closeCalls |-> 0,       \* close calls made on the adapter
     nilNew |-> 0]           \* constructor calls made with a nil handle

IdleTasks == [t \in Tasks |-> "idle"]
NoLocals == [t \in Tasks |-> [kind |-> "none", h |-> NilHandle, id |-> Zero32, t |-> 0,
                              n |-> 0, e |-> Nil]]

\* gettyConn.getActive(): launchTime.Add(active), as an offset from launchTime
getActive == this.active

(***************************************************************************)
(* The transports: what a call on the handle may return, and how it leaves *)
(* the transport.                                                          *)
(***************************************************************************)
\* net.Conn.Read(p), len(p) = L: the pairs (n, err) it may return
TCPReadOutcomes(L) ==
    IF net.open
    THEN {<<n, e>> : n \in Upto(L), e \in {Nil} \cup TCPErrors}
    ELSE {<<0, ErrClosed>>}

\* net.Conn.Write(p), len(p) = L: n < len(p) comes with a non-nil error
TCPWriteOutcomes(L) ==
    IF net.open
    THEN {<<L, Nil>>} \cup {<<n, e>> : n \in Upto(L) \ {L}, e \in TCPErrors}
    ELSE {<<0, ErrClosed>>}

\* websocket.Conn.WriteMessage: the errors it may return
WSWriteOutcomes ==
    IF net.open THEN {Nil} \cup WSWriteErrors ELSE {"ErrCloseSent", ErrClosed}

\* websocket.Conn.ReadMessage: (len of the payload, err)
WSReadOutcomes ==
    IF net.open
    THEN {<<L, Nil>> : L \in Lens} \cup {<<0, e>> : e \in WSReadErrors}
    ELSE {<<0, ErrClosed>>}

\* an adapter call begins: the transport with an empty trace
Begin(n) == [n EXCEPT !.trace = <<>>]

NetRead(n, k, e) ==
    [n EXCEPT !.reads = @ + 1, !.n = k, !.err = e, !.trace = Append(@, "Read")]
NetWrite(n, k, e) ==
    [n EXCEPT !.writes = @ + 1, !.accepted = WideAdd(@, k), !.err = e,
              !.trace = Append(@, "Write")]
NetWriteMessage(n, type, data, e) ==
    [n EXCEPT !.writes = @ + 1, !.frame = [type |-> type, data |-> data], !.err = e,
              !.trace = Append(@, "WriteMessage")]
NetSetLinger(n, sec) ==
    [n EXCEPT !.lingers = @ + 1, !.linger = sec, !.trace = Append(@, "SetLinger")]
NetClose(n) ==
    [n EXCEPT !.closes = @ + 1, !.open = FALSE, !.trace = Append(@, "Close")]

(***************************************************************************)
(* gettyConn: the shared state and its methods (conn.go:57-118).           *)
(***************************************************************************)
\* a store in place of the add
incReadPkgCount_store(c) == [c EXCEPT !.readPkgCount = U32(1)]

\* atomic.AddUint32(&this.readPkgCount, 1)
incReadPkgCount(c) == [c EXCEPT !.readPkgCount = AddUint32(@, U32(1))]

\* atomic.AddUint32(&this.writePkgCount, 1)
incWritePkgCount(c) == [c EXCEPT !.writePkgCount = AddUint32(@, U32(1))]

\* atomic.StoreInt64(&this.active, t), t == int64(time.Since(launchTime))
updateActive(c, t) == [c EXCEPT !.active = t]

\* the setters' check: a deadline below 1 panics
BadDeadline_negative(d) == d < 0

BadDeadline(d) == d < 1

setReadDeadline_always(c, d) == [c EXCEPT !.rDeadline = d, !.wDeadline = d]

\* this.rDeadline = rDeadline; if this.wDeadline == 0 { this.wDeadline = rDeadline }
setReadDeadline(c, d) ==
    [c EXCEPT !.rDeadline = d,
              !.wDeadline = IF c.wDeadline = 0 THEN d ELSE c.wDeadline]

\* this.wDeadline = wDeadline
setWriteDeadline(c, d) == [c EXCEPT !.wDeadline = d]

CanCall == hist.calls < MaxCalls
Called == [hist EXCEPT !.calls = @ + 1]
Sequential == UNCHANGED <<connID, pc, loc, made>>

IncReadPkgCount ==
    /\ CanCall
    /\ this' = incReadPkgCount(this)
    /\ ret' = Ret("incReadPkgCount", Nil, 0, NoData)
    /\ hist' = [Called EXCEPT !.incR = @ + 1]
    /\ UNCHANGED <<net, now>> /\ Sequential

IncWritePkgCount ==
    /\ CanCall
    /\ this' = incWritePkgCount(this)
    /\ ret' = Ret("incWritePkgCount", Nil, 0, NoData)
    /\ hist' = [Called EXCEPT !.incW = @ + 1]
    /\ UNCHANGED <<net, now>> /\ Sequential

\* the whole call: the clock is read (any reading from the last one on), then stored
UpdateActive ==
    /\ CanCall
    /\ \E t \in now..MaxClock :
        /\ now' = t
        /\ this' = updateActive(this, t)
    /\ ret' = Ret("updateActive", Nil, 0, NoData)
    /\ hist' = Called
    /\ UNCHANGED net /\ Sequential

SetReadDeadline ==
    /\ CanCall
    /\ \E d \in Durations :
        IF BadDeadline(d)
        THEN /\ ret' = [Panic("setReadDeadline") EXCEPT !.n = d]
             /\ UNCHANGED this
        ELSE /\ ret' = Ret("setReadDeadline", Nil, d, NoData)
             /\ this' = setReadDeadline(this, d)
    /\ hist' = [Called EXCEPT !.setR = IF ret'.panic THEN @ ELSE @ + 1]
    /\ UNCHANGED <<net, now>> /\ Sequential

SetWriteDeadline ==
    /\ CanCall
    /\ \E d \in Durations :
        IF BadDeadline(d)
        THEN /\ ret' = [Panic("setWriteDeadline") EXCEPT !.n = d]
             /\ UNCHANGED this
        ELSE /\ ret' = Ret("setWriteDeadline", Nil, d, NoData)
             /\ this' = setWriteDeadline(this, d)
    /\ hist' = [Called EXCEPT !.setW = IF ret'.panic THEN @ ELSE @ + 1]
    /\ UNCHANGED <<net, now>> /\ Sequential

(***************************************************************************)
(* gettyTCPConn (conn.go:124-188).                                         *)
(***************************************************************************)
tcpRead_pkg(c, n) ==
    [c EXCEPT !.readCount = AddUint32(@, U32(n)),
              !.readPkgCount = AddUint32(@, U32(1))]

\* the add of 1 per call that conn.go:159 has commented out
tcpRead_one(c, n) == [c EXCEPT !.readCount = AddUint32(@, U32(1))]

\* atomic.AddUint32(&this.readCount, uint32(l))
tcpRead(c, n) == [c EXCEPT !.readCount = AddUint32(@, U32(n))]

tcpWriteCount_accepted(L, n) == U32(n)

\* what write adds to writeCount: (uint32)(len(p)), whatever Write returns
tcpWriteCount(L, n) == U32(L)

\* l, e := this.conn.Read(p); the add; return l, e. A nil conn panics at the call.
TCPRead ==
    /\ CanCall /\ this.kind = "tcp"
    /\ IF this.conn = Nil
       THEN /\ ret' = Panic("read")
            /\ hist' = Called
            /\ UNCHANGED <<this, net>>
       ELSE \E L \in Lens : \E o \in TCPReadOutcomes(L) :
            /\ net' = NetRead(Begin(net), o[1], o[2])
            /\ this' = tcpRead(this, o[1])
            /\ ret' = Ret("read", o[2], o[1], NoData)
            /\ hist' = [Called EXCEPT !.rsum = WideAdd(@, o[1])]
    /\ UNCHANGED now /\ Sequential

\* the add; _, err := this.conn.Write(p); return err. A nil conn panics at the
\* call, after the add.
TCPWrite ==
    /\ CanCall /\ this.kind = "tcp"
    /\ \E L \in Lens :
        /\ hist' = [Called EXCEPT !.wsum = WideAdd(@, L)]
        /\ IF this.conn = Nil
           THEN /\ this' = [this EXCEPT !.writeCount = AddUint32(@, tcpWriteCount(L, 0))]
                /\ ret' = [Panic("write") EXCEPT !.n = L]
                /\ UNCHANGED net
           ELSE \E o \in TCPWriteOutcomes(L) :
                /\ this' = [this EXCEPT !.writeCount = AddUint32(@, tcpWriteCount(L, o[1]))]
                /\ net' = NetWrite(Begin(net), o[1], o[2])
                /\ ret' = Ret("write", o[2], L, NoData)
    /\ UNCHANGED now /\ Sequential

tcpCloseConn_kept(c) == c.conn

\* this.conn = nil
tcpCloseConn(c) == Nil

\* if this.conn != nil { SetLinger(waitSec); Close(); this.conn = nil }
\* this.conn.(*net.TCPConn) panics for a handle of another type.
TCPClose ==
    /\ CanCall /\ this.kind = "tcp"
    /\ \E waitSec \in Lingers :
        IF this.conn # Nil
        THEN IF net.tcp
             THEN /\ net' = NetClose(NetSetLinger(Begin(net), waitSec))
                  /\ this' = [this EXCEPT !.conn = tcpCloseConn(this)]
                  /\ ret' = Ret("close", Nil, waitSec, NoData)
             ELSE /\ ret' = Panic("close")
                  /\ UNCHANGED <<this, net>>
        ELSE /\ ret' = Ret("close", Nil, waitSec, NoData)
             /\ UNCHANGED <<this, net>>
    /\ hist' = [Called EXCEPT !.closeCalls = @ + 1]
    /\ UNCHANGED now /\ Sequential

(***************************************************************************)
(* gettyWSConn (conn.go:194-279).                                          *)
(***************************************************************************)
\* []byte(message): the bytes of the string
Bytes(m) == [text |-> m.text, len |-> m.len]

handlePingErr_strict(e) == e

\* ErrCloseSent and a temporary net.Error become nil; any other error stays
handlePingErr(e) ==
    IF IsErrCloseSent(e) THEN Nil
    ELSE IF IsTemporaryNetError(e) THEN Nil
    ELSE e

wsRead_always(c, e) == incReadPkgCount(c)

\* if e == nil { atomic.AddUint32(&this.readPkgCount, 1) }
wsRead(c, e) == IF e = Nil THEN incReadPkgCount(c) ELSE c

wsWrite_pkg(c, L) ==
    [c EXCEPT !.writeCount = AddUint32(@, U32(L)),
              !.writePkgCount = AddUint32(@, U32(1))]

\* atomic.AddUint32(&this.writeCount, (uint32)(len(p)))
wsWrite(c, L) == [c EXCEPT !.writeCount = AddUint32(@, U32(L))]

\* err := WriteMessage(PongMessage, []byte(message)); the classification;
\* if err == nil { this.updateActive() }; return err
HandlePing ==
    /\ CanCall /\ this.kind = "ws"
    /\ \E m \in Messages : \E e \in WSWriteOutcomes :
        /\ net' = NetWriteMessage(Begin(net), "Pong", Bytes(m), e)
        /\ ret' = Ret("handlePing", handlePingErr(e), 0, m)
        /\ IF handlePingErr(e) = Nil
           THEN \E t \in now..MaxClock :
                /\ now' = t
                /\ this' = updateActive(this, t)
           ELSE UNCHANGED <<this, now>>
    /\ hist' = Called
    /\ Sequential

handlePong_skip(c, t) == c

\* what handlePong does to the adapter: this.updateActive()
handlePong(c, t) == updateActive(c, t)

\* this.updateActive(); return nil
HandlePong ==
    /\ CanCall /\ this.kind = "ws"
    /\ \E m \in Messages : \E t \in now..MaxClock :
        /\ now' = t
        /\ this' = handlePong(this, t)
        /\ ret' = Ret("handlePong", Nil, 0, m)
    /\ hist' = Called
    /\ UNCHANGED net /\ Sequential

\* _, b, e := ReadMessage(); the count on success, the warning on an
\* unexpected close error; return b, e
WSRead ==
    /\ CanCall /\ this.kind = "ws"
    /\ \E o \in WSReadOutcomes :
        /\ net' = NetRead(Begin(net), o[1], o[2])
        /\ this' = wsRead(this, o[2])
        /\ ret' = Ret("read", o[2], o[1],
                      IF o[2] = Nil THEN Payload(o[1]) ELSE NoData)
        /\ hist' = [Called EXCEPT
                      !.wsReads = IF o[2] = Nil THEN @ + 1 ELSE @,
                      !.warns = IF o[2] # Nil /\ IsUnexpectedCloseError(o[2])
                                THEN @ + 1 ELSE @]
    /\ UNCHANGED now /\ Sequential

\* the add; return WriteMessage(BinaryMessage, p)
WSWrite ==
    /\ CanCall /\ this.kind = "ws"
    /\ \E L \in Lens : \E e \in WSWriteOutcomes :
        /\ this' = wsWrite(this, L)
        /\ net' = NetWriteMessage(Begin(net), "Binary", Payload(L), e)
        /\ ret' = Ret("write", e, L, Payload(L))
        /\ hist' = [Called EXCEPT !.wsum = WideAdd(@, L)]
    /\ UNCHANGED now /\ Sequential

\* return WriteMessage(PingMessage, []byte{})
WSWritePing ==
    /\ CanCall /\ this.kind = "ws"
    /\ \E e \in WSWriteOutcomes :
        /\ net' = NetWriteMessage(Begin(net), "Ping", NoData, e)
        /\ ret' = Ret("writePing", e, 0, NoData)
    /\ hist' = Called
    /\ UNCHANGED <<this, now>> /\ Sequential

wsClose_stops(n, waitSec, e) ==
    IF e = Nil
    THEN NetClose(NetSetLinger(NetWriteMessage(n, "Close", Bye, e), waitSec))
    ELSE NetWriteMessage(n, "Close", Bye, e)

\* WriteMessage(CloseMessage, "bye-bye!!!"); UnderlyingConn().(*net.TCPConn)
\* .SetLinger(waitSec); Close(): every returned error is dropped
wsClose(n, waitSec, e) ==
    NetClose(NetSetLinger(NetWriteMessage(n, "Close", Bye, e), waitSec))

WSClose ==
    /\ CanCall /\ this.kind = "ws"
    /\ \E waitSec \in Lingers : \E e \in WSWriteOutcomes :
        IF net.tcp
        THEN /\ net' = wsClose(Begin(net), waitSec, e)
             /\ ret' = Ret("close", Nil, waitSec, NoData)
        ELSE /\ net' = NetWriteMessage(Begin(net), "Close", Bye, e)
             /\ ret' = Panic("close")
    /\ hist' = [Called EXCEPT !.closeCalls = @ + 1]
    /\ UNCHANGED <<this, now>> /\ Sequential

(***************************************************************************)
(* Spec: one adapter, fresh from its constructor in a fresh process, and   *)
(* the calls made on it one after another.                                 *)
(***************************************************************************)
Kinds == {"tcp", "ws"}

\* conn.SetPingHandler(handlePing); conn.SetPongHandler(handlePong)
Installed(kind, n) ==
    IF kind = "ws" THEN [n EXCEPT !.handlers = {"ping", "pong"}] ELSE n

Init ==
    /\ connID = AddUint32(Zero32, U32(1))
    /\ \E kind \in Kinds : \E h \in SomeHandles :
        /\ this = NewAdapter(kind, h, connID)
        /\ net = Installed(kind, FreshNet(h))
    /\ now = 0
    /\ ret = NoRet
    /\ hist = NoHist
    /\ pc = IdleTasks
    /\ loc = NoLocals
    /\ made = <<>>

Next ==
    \/ IncReadPkgCount
    \/ IncWritePkgCount
    \/ UpdateActive
    \/ SetReadDeadline
    \/ SetWriteDeadline
    \/ TCPRead
    \/ TCPWrite
    \/ TCPClose
    \/ WSRead
    \/ WSWrite
    \/ WSWritePing
    \/ WSClose
    \/ HandlePing
    \/ HandlePong

Spec == Init /\ [][Next]_vars

(***************************************************************************)
(* SpecNew: tasks run newGettyTCPConn and newGettyWSConn concurrently in a *)
(* fresh process. A constructor checks its handle, reads the addresses,    *)
(* draws the id with one atomic add, and returns the adapter.              *)
(***************************************************************************)
NoAdapter == NewAdapter("none", Handle(Nil, Nil), Zero32)

Started == hist.calls

nilCheck_none(h) == FALSE

\* conn == nil
nilCheck(h) == h.nil

\* the call starts: if conn == nil { panic(...) }; the addresses are read
NewStart(t) ==
    /\ pc[t] = "idle"
    /\ Started < MaxNew
    /\ \E kind \in Kinds : \E h \in Handles \cup {NilHandle} :
        /\ IF nilCheck(h)
           THEN /\ ret' = Panic(IF kind = "tcp" THEN "newGettyTCPConn"
                                ELSE "newGettyWSConn")
                /\ UNCHANGED <<pc, loc>>
           ELSE /\ pc' = [pc EXCEPT ![t] = "id"]
                /\ loc' = [loc EXCEPT ![t].kind = kind, ![t].h = h,
                                       ![t].n = Len(made)]   \* adapters returned before this call
                /\ UNCHANGED ret
        /\ hist' = [Called EXCEPT !.nilNew = IF h.nil THEN @ + 1 ELSE @]
    /\ UNCHANGED <<connID, this, net, now, made>>

\* ID: atomic.AddUint32(&connID, 1)
NewID(t) ==
    /\ pc[t] = "id"
    /\ connID' = AddUint32(connID, U32(1))
    /\ loc' = [loc EXCEPT ![t].id = connID']
    /\ pc' = [pc EXCEPT ![t] = "return"]
    /\ UNCHANGED <<this, net, now, ret, hist, made>>

\* the adapter is built (and, for a websocket, the two handlers are set) and returned
NewReturn(t) ==
    /\ pc[t] = "return"
    /\ made' = Append(made,
                      [adapter |-> NewAdapter(loc[t].kind, loc[t].h, loc[t].id),
                       handlers |-> Installed(loc[t].kind, FreshNet(loc[t].h)).handlers])
    /\ pc' = [pc EXCEPT ![t] = "idle"]
    /\ loc' = [loc EXCEPT ![t] = NoLocals[t]]
    /\ ret' = Ret(IF loc[t].kind = "tcp" THEN "newGettyTCPConn" ELSE "newGettyWSConn",
                  Nil, 0, NoData)
    /\ UNCHANGED <<connID, this, net, now, hist>>

InitNew ==
    /\ connID = Zero32
    /\ this = NoAdapter
    /\ net = FreshNet(Handle(Nil, Nil))
    /\ now = 0
    /\ ret = NoRet
    /\ hist = NoHist
    /\ pc = IdleTasks
    /\ loc = NoLocals
    /\ made = <<>>

NextNew == \E t \in Tasks : NewStart(t) \/ NewID(t) \/ NewReturn(t)

SpecNew == InitNew /\ [][NextNew]_vars

(***************************************************************************)
(* SpecWrap: the constructors of SpecNew in a process that has already     *)
(* constructed 2^32 - 2 adapters, so connID holds 2^32 - 2; made lists the *)
(* adapters returned from then on.                                         *)
(***************************************************************************)
\* connID after 2^32 - 2 constructions
NearWrap == <<Limb - 1, Limb - 2>>

InitWrap ==
    /\ connID = NearWrap
    /\ this = NoAdapter
    /\ net = FreshNet(Handle(Nil, Nil))
    /\ now = 0
    /\ ret = NoRet
    /\ hist = NoHist
    /\ pc = IdleTasks
    /\ loc = NoLocals
    /\ made = <<>>

SpecWrap == InitWrap /\ [][NextNew]_vars

(***************************************************************************)
(* SpecActive: tasks run updateActive on one adapter concurrently. A call  *)
(* reads the clock (time.Since) and then stores the reading (atomic        *)
(* store): two steps, and other tasks may run between them.                *)
(***************************************************************************)
\* int64(time.Since(launchTime)): the clock is read, at or after its last reading
ActiveSample(t) ==
    /\ pc[t] = "idle"
    /\ CanCall
    /\ \E tm \in now..MaxClock :
        /\ now' = tm
        /\ loc' = [loc EXCEPT ![t].t = tm]
    /\ pc' = [pc EXCEPT ![t] = "store"]
    /\ hist' = Called
    /\ UNCHANGED <<connID, this, net, ret, made>>

\* atomic.StoreInt64(&this.active, ...)
ActiveStore(t) ==
    /\ pc[t] = "store"
    /\ this' = updateActive(this, loc[t].t)
    /\ pc' = [pc EXCEPT ![t] = "idle"]
    /\ ret' = Ret("updateActive", Nil, loc[t].t, NoData)
    /\ UNCHANGED <<connID, net, now, hist, loc, made>>

NextActive == \E t \in Tasks : ActiveSample(t) \/ ActiveStore(t)

SpecActive == Init /\ [][NextActive]_vars

(***************************************************************************)
(* SpecClose: tasks run gettyTCPConn.close on one adapter concurrently.    *)
(* The method reads this.conn at the check, at the SetLinger call and at   *)
(* the Close call, and writes it last, with no synchronisation: a read     *)
(* that races with the write yields the handle read before or nil.         *)
(***************************************************************************)
\* what a racing read of this.conn may yield to a task that has seen the handle
RacyConn == {this.conn, "conn"}

\* if this.conn != nil
CloseCheck(t) ==
    /\ pc[t] = "idle"
    /\ CanCall
    /\ \E waitSec \in Lingers :
        IF this.conn # Nil
        THEN /\ pc' = [pc EXCEPT ![t] = "linger"]
             /\ loc' = [loc EXCEPT ![t].n = waitSec]
             /\ UNCHANGED ret
        ELSE /\ ret' = Ret("close", Nil, waitSec, NoData)
             /\ UNCHANGED <<pc, loc>>
    /\ hist' = [Called EXCEPT !.closeCalls = @ + 1]
    /\ UNCHANGED <<connID, this, net, now, made>>

\* this.conn.(*net.TCPConn).SetLinger(waitSec): the assertion panics on nil
CloseLinger(t) ==
    /\ pc[t] = "linger"
    /\ \E c \in RacyConn :
        IF c = Nil \/ ~net.tcp
        THEN /\ ret' = Panic("close")
             /\ pc' = [pc EXCEPT ![t] = "idle"]
             /\ UNCHANGED net
        ELSE /\ net' = NetSetLinger(net, loc[t].n)
             /\ pc' = [pc EXCEPT ![t] = "close"]
             /\ UNCHANGED ret
    /\ UNCHANGED <<connID, this, now, hist, loc, made>>

\* this.conn.Close(): the call panics on nil
CloseClose(t) ==
    /\ pc[t] = "close"
    /\ \E c \in RacyConn :
        IF c = Nil
        THEN /\ ret' = Panic("close")
             /\ pc' = [pc EXCEPT ![t] = "idle"]
             /\ UNCHANGED net
        ELSE /\ net' = NetClose(net)
             /\ pc' = [pc EXCEPT ![t] = "clear"]
             /\ UNCHANGED ret
    /\ UNCHANGED <<connID, this, now, hist, loc, made>>

\* this.conn = nil
CloseClear(t) ==
    /\ pc[t] = "clear"
    /\ this' = [this EXCEPT !.conn = tcpCloseConn(this)]
    /\ pc' = [pc EXCEPT ![t] = "idle"]
    /\ ret' = Ret("close", Nil, loc[t].n, NoData)
    /\ UNCHANGED <<connID, net, now, hist, loc, made>>

InitClose == Init /\ this.kind = "tcp"

NextClose ==
    \E t \in Tasks : CloseCheck(t) \/ CloseLinger(t) \/ CloseClose(t) \/ CloseClear(t)

SpecClose == InitClose /\ [][NextClose]_vars

(***************************************************************************)
(* SpecCount: tasks run read, write, incReadPkgCount and incWritePkgCount  *)
(* on one adapter concurrently. A read is the transport call and then the  *)
(* atomic add; a write is the atomic add and then the transport call; the  *)
(* two inc methods are one atomic add each. Other tasks may run between    *)
(* the two steps of a read or a write.                                     *)
(***************************************************************************)
\* l, e := this.conn.Read(p)   /   _, b, e := this.conn.ReadMessage()
CountReadIO(t) ==
    /\ pc[t] = "idle"
    /\ CanCall
    /\ \E o \in (IF this.kind = "tcp" THEN UNION {TCPReadOutcomes(L) : L \in Lens}
                 ELSE WSReadOutcomes) :
        /\ net' = NetRead(Begin(net), o[1], o[2])
        /\ loc' = [loc EXCEPT ![t].n = o[1], ![t].e = o[2]]
        /\ hist' = IF this.kind = "tcp"
                   THEN [Called EXCEPT !.rsum = WideAdd(@, o[1])]
                   ELSE [Called EXCEPT
                           !.wsReads = IF o[2] = Nil THEN @ + 1 ELSE @,
                           !.warns = IF o[2] # Nil /\ IsUnexpectedCloseError(o[2])
                                     THEN @ + 1 ELSE @]
    /\ pc' = [pc EXCEPT ![t] = "readAdd"]
    /\ UNCHANGED <<connID, this, now, ret, made>>

\* atomic.AddUint32(&this.readCount, uint32(l))   /
\* if e == nil { atomic.AddUint32(&this.readPkgCount, 1) }; the return
CountReadAdd(t) ==
    /\ pc[t] = "readAdd"
    /\ this' = IF this.kind = "tcp" THEN tcpRead(this, loc[t].n)
               ELSE wsRead(this, loc[t].e)
    /\ ret' = Ret("read", loc[t].e, loc[t].n,
                  IF this.kind = "ws" /\ loc[t].e = Nil THEN Payload(loc[t].n) ELSE NoData)
    /\ pc' = [pc EXCEPT ![t] = "idle"]
    /\ loc' = [loc EXCEPT ![t] = NoLocals[t]]
    /\ UNCHANGED <<connID, net, now, hist, made>>

\* atomic.AddUint32(&this.writeCount, (uint32)(len(p)))
CountWriteAdd(t) ==
    /\ pc[t] = "idle"
    /\ CanCall
    /\ \E L \in Lens :
        /\ this' = IF this.kind = "tcp"
                   THEN [this EXCEPT !.writeCount = AddUint32(@, tcpWriteCount(L, 0))]
                   ELSE wsWrite(this, L)
        /\ loc' = [loc EXCEPT ![t].n = L]
        /\ hist' = [Called EXCEPT !.wsum = WideAdd(@, L)]
    /\ pc' = [pc EXCEPT ![t] = "writeIO"]
    /\ UNCHANGED <<connID, net, now, ret, made>>

\* _, err := this.conn.Write(p)   /   WriteMessage(BinaryMessage, p); the return
CountWriteIO(t) ==
    /\ pc[t] = "writeIO"
    /\ IF this.kind = "tcp"
       THEN \E o \in TCPWriteOutcomes(loc[t].n) :
            /\ net' = NetWrite(Begin(net), o[1], o[2])
            /\ ret' = Ret("write", o[2], loc[t].n, NoData)
       ELSE \E e \in WSWriteOutcomes :
            /\ net' = NetWriteMessage(Begin(net), "Binary", Payload(loc[t].n), e)
            /\ ret' = Ret("write", e, loc[t].n, Payload(loc[t].n))
    /\ pc' = [pc EXCEPT ![t] = "idle"]
    /\ loc' = [loc EXCEPT ![t] = NoLocals[t]]
    /\ UNCHANGED <<connID, this, now, hist, made>>

\* incReadPkgCount: the one atomic add
CountIncRead(t) ==
    /\ pc[t] = "idle"
    /\ CanCall
    /\ this' = incReadPkgCount(this)
    /\ ret' = Ret("incReadPkgCount", Nil, 0, NoData)
    /\ hist' = [Called EXCEPT !.incR = @ + 1]
    /\ UNCHANGED <<connID, net, now, pc, loc, made>>

\* incWritePkgCount: the one atomic add
CountIncWrite(t) ==
    /\ pc[t] = "idle"
    /\ CanCall
    /\ this' = incWritePkgCount(this)
    /\ ret' = Ret("incWritePkgCount", Nil, 0, NoData)
    /\ hist' = [Called EXCEPT !.incW = @ + 1]
    /\ UNCHANGED <<connID, net, now, pc, loc, made>>

\* an adapter with both addresses, after a setReadDeadline call
InitCount ==
    /\ connID = AddUint32(Zero32, U32(1))
    /\ \E kind \in Kinds : \E d \in {d \in Durations : d > 2} :
        /\ this = setReadDeadline(NewAdapter(kind, Handle("addr", "addr"), connID), d)
        /\ net = Installed(kind, FreshNet(Handle("addr", "addr")))
    /\ now = 0
    /\ ret = NoRet
    /\ hist = NoHist
    /\ pc = IdleTasks
    /\ loc = NoLocals
    /\ made = <<>>

NextCount ==
    \E t \in Tasks :
        \/ CountReadIO(t) \/ CountReadAdd(t)
        \/ CountWriteAdd(t) \/ CountWriteIO(t)
        \/ CountIncRead(t) \/ CountIncWrite(t)

SpecCount == InitCount /\ [][NextCount]_vars

(***************************************************************************)
(* Properties.                                                             *)
(***************************************************************************)
\* the step is a call of op on the adapter of Spec
CallStep(op) == hist'.calls = hist.calls + 1 /\ ret'.op = op

IsTCP == this.kind = "tcp"
IsWS == this.kind = "ws"

\* tasks of SpecNew that have drawn an id and not yet returned
Drawn == {t \in Tasks : pc[t] = "return"}
MadeIDs == {made[i].adapter.ID : i \in 1..Len(made)}
DrawnIDs == {loc[t].id : t \in Drawn}

\* C1: under SpecNew, whatever the interleaving of the tasks and the mix of
\* the two constructors, the ids assigned so far (to the adapters returned
\* and to the constructions that have drawn theirs) are pairwise distinct
\* and are exactly 1..n, n their number; once every task is idle the ids of
\* the adapters returned are exactly 1..Len(made).
C1_UniqueContiguousIDs ==
    /\ \A i, j \in 1..Len(made) : i # j => made[i].adapter.ID # made[j].adapter.ID
    /\ \A t, u \in Drawn : t # u => loc[t].id # loc[u].id
    /\ MadeIDs \cap DrawnIDs = {}
    /\ MadeIDs \cup DrawnIDs = {U32(k) : k \in 1..(Len(made) + Cardinality(Drawn))}
    /\ (\A t \in Tasks : pc[t] = "idle") => MadeIDs = {U32(k) : k \in 1..Len(made)}

\* two constructions of different kinds have both drawn their ids and not
\* yet returned, after an adapter was already returned
C1_Witness ==
    /\ Len(made) >= 1
    /\ \E t, u \in Tasks :
        /\ pc[t] = "return" /\ loc[t].kind = "tcp"
        /\ pc[u] = "return" /\ loc[u].kind = "ws"

\* C2: under SpecActive, getActive() never decreases, although updateActive
\* runs concurrently in several tasks (read the clock, then store).
C2_ActivityNeverDecreases == [][getActive' >= getActive]_vars

\* C3: on a stream adapter, with close calls made one after another, the
\* first one calls SetLinger and Close once each and clears the handle, and
\* every later one changes nothing and returns normally: Close is called
\* exactly once in total.
C3_StreamCloseOnce ==
    /\ [](IsTCP =>
            /\ (hist.closeCalls = 0 =>
                    net.closes = 0 /\ net.lingers = 0 /\ this.conn # Nil)
            /\ (hist.closeCalls >= 1 =>
                    net.closes = 1 /\ net.lingers = 1 /\ this.conn = Nil))
    /\ [][(IsTCP /\ CallStep("close")) =>
            /\ ~ret'.panic
            /\ (hist.closeCalls = 0 =>
                    net'.linger = ret'.n /\ ~net'.open /\ this'.conn = Nil)
            /\ (hist.closeCalls >= 1 => net' = net /\ this' = this)]_vars

\* a stream adapter on which close has been called twice
C3_Witness ==
    IsTCP /\ hist.closeCalls = 2 /\ ret.op = "close" /\ net.closes = 1

\* C4: on any adapter, stream or message, a close call made after an earlier
\* close call is a no-op and not an error: it sends no frame, does not touch
\* linger and does not close the transport again.
C4_CloseWhenClosedIsNoOp ==
    [][(CallStep("close") /\ hist.closeCalls >= 1) =>
            /\ ~ret'.panic
            /\ net'.writes = net.writes
            /\ net'.lingers = net.lingers
            /\ net'.closes = net.closes]_vars

\* C5: under SpecClose, with close running concurrently in several tasks on
\* one stream adapter, the transport is closed at most once and no call
\* panics on a handle another call has cleared.
C5_RacingCloseSafe ==
    net.closes <= 1 /\ ~(ret.op = "close" /\ ret.panic)

\* C6: a setReadDeadline(d) call that returns sets rDeadline to d, and sets
\* wDeadline to d if wDeadline was 0 and leaves it unchanged otherwise; a
\* setWriteDeadline(d) call that returns sets wDeadline to d and leaves
\* rDeadline unchanged; wDeadline is 0 exactly until the first setter call
\* returns, so only a first setReadDeadline that no setWriteDeadline
\* preceded back-fills it.
C6_DeadlineBackfill ==
    /\ [](this.wDeadline = 0 <=> (hist.setR = 0 /\ hist.setW = 0))
    /\ [][(CallStep("setReadDeadline") /\ ~ret'.panic) =>
            /\ this'.rDeadline = ret'.n
            /\ this'.wDeadline = (IF this.wDeadline = 0 THEN ret'.n ELSE this.wDeadline)
            /\ ((hist.setR > 0 \/ hist.setW > 0) => this'.wDeadline = this.wDeadline)]_vars
    /\ [][(CallStep("setWriteDeadline") /\ ~ret'.panic) =>
            /\ this'.wDeadline = ret'.n
            /\ this'.rDeadline = this.rDeadline]_vars

\* setReadDeadline(5) back-filled wDeadline, then setWriteDeadline(2)
C6_Witness ==
    /\ ret.op = "setWriteDeadline" /\ ~ret.panic
    /\ hist.setR = 1 /\ hist.setW = 1
    /\ this.rDeadline = 5 /\ this.wDeadline = 2

\* C7: a setter called with d < 1 panics and leaves rDeadline and wDeadline
\* (and the rest of the adapter) as they were.
C7_BadDeadlinePanics ==
    [][((CallStep("setReadDeadline") \/ CallStep("setWriteDeadline")) /\ ret'.n < 1) =>
            ret'.panic /\ this' = this]_vars

\* setReadDeadline(0) panicked on an adapter whose deadlines were 5 and 2
C7_Witness ==
    /\ ret.op = "setReadDeadline" /\ ret.panic /\ ret.n = 0
    /\ this.rDeadline = 5 /\ this.wDeadline = 2

\* C8 as stated: on a stream adapter writeCount is the exact sum of len(p)
\* over the write calls and at least the bytes the transport accepted, and
\* write returns the transport's error.
C8_WriteCountIsExactSum ==
    /\ [](IsTCP =>
            /\ this.writeCount = hist.wsum
            /\ WideLeq(net.accepted, this.writeCount))
    /\ [][(IsTCP /\ CallStep("write") /\ ~ret'.panic) => ret'.err = net'.err]_vars

\* C8 amended: writeCount is that sum modulo 2^32; it is at least the bytes
\* accepted while the sum is below 2^32; every write call adds len(p), also
\* one that fails or panics at the transport call; write returns the
\* transport's error.
C8_WriteCountIsSumMod32 ==
    /\ [](IsTCP =>
            /\ this.writeCount = Mod32(hist.wsum)
            /\ (hist.wsum[1] < Limb => WideLeq(net.accepted, this.writeCount)))
    /\ [][(IsTCP /\ CallStep("write")) =>
            /\ this'.writeCount = AddUint32(this.writeCount, U32(ret'.n))
            /\ (~ret'.panic => ret'.err = net'.err /\ net'.writes = net.writes + 1)]_vars

\* the sum of len(p) has passed 2^32 with a write the transport failed in part
C8_Witness ==
    /\ IsTCP /\ ret.op = "write" /\ ret.err # Nil
    /\ hist.wsum[1] >= Limb
    /\ net.accepted # hist.wsum

\* C9 as stated: on a stream adapter readPkgCount and writePkgCount are 0 in
\* every reachable state, whatever calls are made, incReadPkgCount and
\* incWritePkgCount included.
C9_StreamPkgCountsZero ==
    IsTCP => this.readPkgCount = Zero32 /\ this.writePkgCount = Zero32

\* C9 amended: on a stream adapter read, write, close, the deadline setters
\* and updateActive leave readPkgCount and writePkgCount alone; they count
\* the incReadPkgCount and incWritePkgCount calls.
C9_StreamPkgCountsOnlyInc ==
    IsTCP =>
        /\ this.readPkgCount = U32(hist.incR)
        /\ this.writePkgCount = U32(hist.incW)

\* a stream adapter has read bytes after an incReadPkgCount call
C9_Witness ==
    /\ IsTCP /\ ret.op = "read" /\ ret.n > 0
    /\ hist.incR = 1 /\ this.readPkgCount = U32(1) /\ this.writePkgCount = Zero32

\* C10: on a message adapter, as long as read is the only call that counts
\* messages (no incReadPkgCount call was made), readPkgCount is the number
\* of read calls that returned a nil error; readCount stays 0; a read that
\* succeeds adds exactly 1 whatever the payload size and a read that fails
\* leaves the adapter as it was; read returns the transport's error, also
\* when it logs the warning.
C10_MessageReadCount ==
    /\ [](IsWS =>
            /\ (hist.incR = 0 => this.readPkgCount = U32(hist.wsReads))
            /\ this.readCount = Zero32)
    /\ [][(IsWS /\ CallStep("read")) =>
            /\ ret'.err = net'.err
            /\ (ret'.err = Nil =>
                    this' = [this EXCEPT !.readPkgCount = AddUint32(@, U32(1))])
            /\ (ret'.err # Nil => this' = this)
            /\ ((ret'.err # Nil /\ IsUnexpectedCloseError(ret'.err)) =>
                    hist'.warns = hist.warns + 1)]_vars

\* after two reads that succeeded, a read failed with an unexpected close
\* error, which was logged and returned
C10_Witness ==
    /\ IsWS /\ ret.op = "read" /\ ret.err = "CloseError1006"
    /\ hist.warns = 1 /\ hist.wsReads = 2 /\ hist.incR = 0
    /\ this.readPkgCount = U32(2)

\* the WriteMessage outcomes handlePing treats as benign
Benign == {Nil, "ErrCloseSent", "net.temporary"}

\* C11: a handlePing(m) call hands WriteMessage exactly one Pong frame with
\* the bytes of m; if WriteMessage returned nil, ErrCloseSent or a temporary
\* net.Error the handler returns nil and stores a fresh clock reading in
\* active; on any other error it returns that error and leaves the adapter
\* (active included) as it was.
C11_PingHandler ==
    [][(IsWS /\ CallStep("handlePing")) =>
            /\ ~ret'.panic
            /\ net'.writes = net.writes + 1
            /\ net'.trace = <<"WriteMessage">>
            /\ net'.frame = [type |-> "Pong", data |-> ret'.data]
            /\ (net'.err \in Benign =>
                    /\ ret'.err = Nil
                    /\ now' >= now
                    /\ this' = [this EXCEPT !.active = now'])
            /\ (net'.err \notin Benign =>
                    /\ ret'.err = net'.err
                    /\ now' = now
                    /\ this' = this)]_vars

\* the pong for "hello" failed with a temporary net.Error: the handler
\* returned nil and moved active forward
C11_Witness ==
    /\ IsWS /\ ret.op = "handlePing" /\ ret.err = Nil
    /\ net.err = "net.temporary"
    /\ net.frame = [type |-> "Pong", data |-> [text |-> "hello", len |-> 5]]
    /\ this.active = 2

\* C12: under SpecWrap, whenever a construction completed before another
\* started, the later one's id is strictly greater, however many adapters
\* the process has constructed.
C12_IDsStrictlyIncrease ==
    \A t \in Drawn : \A i \in 1..loc[t].n : ~WideLeq(loc[t].id, made[i].adapter.ID)

\* C13: under SpecNew, a constructor called with a nil handle panics: it
\* returns neither an error nor an adapter, and it panics before the id is
\* drawn, so connID, the constructions in flight and the adapters returned
\* are as before; connID counts exactly the constructions that drew an id,
\* and their ids stay 1..n with failed constructions in between.
C13_NilHandlePanics ==
    /\ [][hist'.nilNew = hist.nilNew + 1 =>
            /\ ret'.panic
            /\ ret'.op \in {"newGettyTCPConn", "newGettyWSConn"}
            /\ connID' = connID
            /\ made' = made
            /\ pc' = pc
            /\ loc' = loc]_vars
    /\ [](connID = U32(Len(made) + Cardinality(Drawn)))
    /\ [](MadeIDs \cup DrawnIDs = {U32(k) : k \in 1..(Len(made) + Cardinality(Drawn))})
    /\ [](\A i \in 1..Len(made) : made[i].adapter.conn # Nil)
    /\ [](hist.calls = hist.nilNew + Len(made) + Cardinality({t \in Tasks : pc[t] # "idle"}))

\* a construction with a nil handle has just panicked, after one adapter was
\* returned and while another construction holds the id it has drawn
C13_Witness ==
    /\ ret.panic /\ ret.op = "newGettyWSConn"
    /\ hist.nilNew = 1
    /\ Len(made) = 1 /\ made[1].adapter.ID = U32(1)
    /\ \E t \in Drawn : loc[t].id = U32(2)
    /\ connID = U32(2)

\* C14: once a close call has returned, on a stream or a message adapter, no
\* later read, write, writePing or handlePing call makes a Read, Write or
\* WriteMessage call on the transport, and a cleared handle stays cleared.
C14_InertAfterClose ==
    /\ [][(hist.closeCalls >= 1 /\ ~(ret.op = "close" /\ ret.panic)
           /\ \E op \in {"read", "write", "writePing", "handlePing"} : CallStep(op)) =>
                /\ net'.reads = net.reads
                /\ net'.writes = net.writes]_vars
    /\ [][this.conn = Nil => this'.conn = Nil]_vars

\* what every gettyWSConn.close call does, whatever WriteMessage returns:
\* one Close frame with the farewell, one SetLinger, one Close, in this
\* order, nothing returned and the adapter's fields untouched
WSCloseSteps ==
    /\ ~ret'.panic
    /\ ret'.err = Nil
    /\ net'.trace = <<"WriteMessage", "SetLinger", "Close">>
    /\ net'.frame = [type |-> "Close", data |-> Bye]
    /\ net'.writes = net.writes + 1
    /\ net'.lingers = net.lingers + 1
    /\ net'.closes = net.closes + 1
    /\ ~net'.open
    /\ this' = this

\* C15 (as claimed): a close(waitSec) call on a message adapter sends one
\* Close frame with the farewell, then sets linger to 0 whatever waitSec is,
\* then closes the transport; no error is returned or stops the sequence.
C15_WSCloseAbandonsLinger ==
    [][(IsWS /\ CallStep("close")) => (WSCloseSteps /\ net'.linger = 0)]_vars

\* C15 (amended): a close(waitSec) call on a message adapter sends one Close
\* frame with the farewell, then sets linger to waitSec, then closes the
\* transport; no error is returned or stops the sequence.
C15_WSCloseSetsLinger ==
    [][(IsWS /\ CallStep("close")) => (WSCloseSteps /\ net'.linger = ret'.n)]_vars

\* close(3) whose Close frame failed: linger was still set, to 3, and the
\* transport closed
C15_Witness ==
    /\ IsWS /\ ret.op = "close" /\ ret.n = 3 /\ ~ret.panic
    /\ net.err = "other"
    /\ net.trace = <<"WriteMessage", "SetLinger", "Close">>
    /\ net.linger = 3 /\ ~net.open

\* what every gettyWSConn.write(p) call does: one WriteMessage of a Binary
\* frame carrying p, its error returned as it is, and of the adapter's
\* fields only writeCount changed
WSWriteSteps ==
    /\ ~ret'.panic
    /\ net'.writes = net.writes + 1
    /\ net'.trace = <<"WriteMessage">>
    /\ net'.frame = [type |-> "Binary", data |-> ret'.data]
    /\ ret'.data.len = ret'.n
    /\ ret'.err = net'.err
    /\ this' = [this EXCEPT !.writeCount = this'.writeCount]

\* C16 (as claimed): on a message adapter writeCount is the exact sum of
\* len(p) over the write calls, whether the sends succeeded or not; each
\* call sends one Binary frame with p and returns the transport's error;
\* write never changes writePkgCount.
C16_WSWriteCountIsExactSum ==
    /\ [](IsWS => this.writeCount = hist.wsum)
    /\ [][(IsWS /\ CallStep("write")) => WSWriteSteps]_vars

\* C16 (amended): writeCount is that sum modulo 2^32, every call adding
\* len(p) modulo 2^32; the rest as claimed.
C16_WSWriteCountIsSumMod32 ==
    /\ [](IsWS => this.writeCount = Mod32(hist.wsum))
    /\ [][(IsWS /\ CallStep("write")) =>
            /\ WSWriteSteps
            /\ this'.writeCount = AddUint32(this.writeCount, U32(ret'.n))]_vars

\* the sum of len(p) has passed 2^32 on a message adapter, the last send
\* having failed, and writePkgCount is still 0
C16_Witness ==
    /\ IsWS /\ ret.op = "write" /\ ret.err = "net.permanent"
    /\ hist.wsum[1] >= Limb
    /\ this.writeCount # hist.wsum
    /\ this.writePkgCount = Zero32
    /\ net.frame.type = "Binary"

\* what a gettyTCPConn.read(p) call on an open handle does: it returns the
\* (n, err) the transport's Read returned, and of the adapter's fields it
\* changes only readCount
TCPReadSteps ==
    /\ net'.reads = net.reads + 1
    /\ net'.trace = <<"Read">>
    /\ ret'.n = net'.n
    /\ ret'.err = net'.err
    /\ this' = [this EXCEPT !.readCount = this'.readCount]

\* C17 (as claimed): on a stream adapter readCount is the exact sum of the n
\* that Read returned, those returned with an error included; read returns
\* Read's (n, err) and changes no other counter.
C17_ReadCountIsExactSum ==
    /\ [](IsTCP => this.readCount = hist.rsum)
    /\ [][(IsTCP /\ CallStep("read") /\ ~ret'.panic) => TCPReadSteps]_vars

\* C17 (amended): readCount is that sum modulo 2^32, every read adding the
\* n it returns modulo 2^32; the rest as claimed.
C17_ReadCountIsSumMod32 ==
    /\ [](IsTCP => this.readCount = Mod32(hist.rsum))
    /\ [][(IsTCP /\ CallStep("read") /\ ~ret'.panic) =>
            /\ TCPReadSteps
            /\ this'.readCount = AddUint32(this.readCount, U32(ret'.n))]_vars

\* the sum of the bytes read has passed 2^32, the last read having returned
\* its bytes together with an error; the other counters are still 0
C17_Witness ==
    /\ IsTCP /\ ret.op = "read" /\ ret.n = BigLen /\ ret.err = "reset"
    /\ hist.rsum[1] >= Limb
    /\ this.readCount # hist.rsum
    /\ this.writeCount = Zero32
    /\ this.readPkgCount = Zero32 /\ this.writePkgCount = Zero32

\* C19: a handlePong(m) call on a message adapter, whatever m and whatever
\* was called before (close included), stores a fresh clock reading in
\* active, returns nil, makes no transport call, and leaves every counter,
\* both deadlines and every other field as they were.
C19_PongHandler ==
    [][(IsWS /\ CallStep("handlePong")) =>
            /\ ~ret'.panic
            /\ ret'.err = Nil
            /\ net' = net
            /\ now' >= now
            /\ this' = [this EXCEPT !.active = now']]_vars

\* handlePong("hello") on an adapter already closed, whose writeCount and
\* deadlines are set: active moved and nothing else did
C19_Witness ==
    /\ IsWS /\ ret.op = "handlePong" /\ ret.data.text = "hello"
    /\ hist.closeCalls = 1 /\ ~net.open
    /\ this.active = 2
    /\ this.rDeadline = 5

\* the sum modulo 2^32 of f[t] over the tasks t of S
RECURSIVE Sum32(_, _)
Sum32(f, S) ==
    IF S = {} THEN Zero32
    ELSE LET t == CHOOSE x \in S : TRUE
         IN  AddUint32(f[t], Sum32(f, S \ {t}))

\* the adds that reads in flight have not applied yet: a read holds the n
\* (stream) or the nil error (message) its transport call returned
PendingBytes == [t \in Tasks |-> IF pc[t] = "readAdd" /\ IsTCP THEN U32(loc[t].n) ELSE Zero32]
PendingPkgs ==
    [t \in Tasks |-> IF pc[t] = "readAdd" /\ IsWS /\ loc[t].e = Nil THEN U32(1) ELSE Zero32]

Unchanged(f) == this'[f] = this[f]

\* C18: under SpecCount, with reads, writes, incReadPkgCount and
\* incWritePkgCount running concurrently on one adapter, every counter is
\* the sum modulo 2^32 of the increments applied to it, and together with
\* the adds of the reads still in flight the sum of all increments asked
\* for; so once every task is idle each counter is that full sum. A step
\* changes at most one counter, by the increment it applies, and never the
\* ID, the addresses, the deadlines, active or the handle.
C18_CountersLoseNoUpdate ==
    /\ [](this.writeCount = Mod32(hist.wsum))
    /\ [](this.writePkgCount = U32(hist.incW))
    /\ [](AddUint32(this.readCount, Sum32(PendingBytes, Tasks)) = Mod32(hist.rsum))
    /\ [](AddUint32(this.readPkgCount, Sum32(PendingPkgs, Tasks)) = U32(hist.incR + hist.wsReads))
    /\ []((\A t \in Tasks : pc[t] = "idle") =>
            /\ this.readCount = Mod32(hist.rsum)
            /\ this.readPkgCount = U32(hist.incR + hist.wsReads))
    /\ [][/\ \A f \in {"ID", "local", "peer", "rDeadline", "wDeadline", "active", "conn", "kind"} :
                Unchanged(f)
          /\ Cardinality({f \in {"readCount", "writeCount", "readPkgCount", "writePkgCount"} :
                            ~Unchanged(f)}) <= 1]_vars

\* a write of 2^31 - 1 bytes has applied its add and not yet made its
\* transport call, a read holds 2^31 - 1 bytes not yet added, and an
\* incReadPkgCount call has run in between
C18_Witness ==
    /\ IsTCP
    /\ \E t, u \in Tasks :
        /\ pc[t] = "readAdd" /\ loc[t].n = BigLen
        /\ pc[u] = "writeIO" /\ loc[u].n = BigLen
    /\ hist.incR = 1 /\ this.readPkgCount = U32(1)
    /\ this.readCount = Zero32 /\ this.writeCount = U32(BigLen)
    /\ this.rDeadline = 5 /\ this.wDeadline = 5

====
